---- MODULE Spec2Model ----
(***************************************************************************)
(* The data-cleaning notebook "Data Cleaning/Data Cleaning.ipynb" as a     *)
(* state machine.  The state is the kernel's namespace (messy_data, the    *)
(* dictionary the frame is built from, and messy_df, the frame every       *)
(* cleaning statement updates in place) together with the position of the  *)
(* kernel in the cell it is executing and the exception it last raised.    *)
(* df_id is the identity of the frame object the name messy_df is bound    *)
(* to: line 125 binds the name to a new object, every other statement      *)
(* (an item assignment, an inplace=True call, *=) updates the object the   *)
(* name already holds.  report is the record of coercion failures: line    *)
(* 155 passes errors='coerce', which neither raises nor warns, and no      *)
(* statement of the notebook writes such a record.                         *)
(* A cell can be executed whenever the kernel is idle, any number of       *)
(* times and in any order; an exception aborts the rest of the cell.       *)
(*                                                                         *)
(* Cell values.  A cell is missing (NaN), a number or a text.  Numbers     *)
(* are kept as x2, twice their value, so that the median of an even        *)
(* number of integers (27.5) is exact.  Texts are sequences of one-        *)
(* character strings, so that the regular expression of line 184 and the   *)
(* parsing of pd.to_numeric are computed character by character.  The      *)
(* texts of the model are over letters, digits, "," and "-": none holds    *)
(* ".", a sign, an exponent, white space or a spelling of nan/inf, which   *)
(* pd.to_numeric would also accept.                                        *)
(*                                                                         *)
(* Lines 156 and 215 call an in-place method on the column messy_df[...]   *)
(* selects.  The outputs the notebook records (lines 142-149, 199-206)     *)
(* show the frame updated by both, which is what pandas does on the        *)
(* Python 3.10 kernel the notebook names; the model follows them.          *)
(***************************************************************************)
EXTENDS Integers, Sequences, FiniteSets, TLC

VARIABLES messy_data, messy_df, df_id, report, cell, pc, err

vars == <<messy_data, messy_df, df_id, report, cell, pc, err>>

\* Longest table built freely from the rows of RowPool.
MaxRows == 3

-----------------------------------------------------------------------------
(* Cell values *)

NaN == [k |-> "nan", x2 |-> 0, s |-> <<>>]
Num2(h) == [k |-> "num", x2 |-> h, s |-> <<>>]
Whole(i) == Num2(2 * i)
Txt(t) == [k |-> "str", x2 |-> 0, s |-> t]

IsNaN(c) == c.k = "nan"
IsNum(c) == c.k = "num"
IsStr(c) == c.k = "str"

Digits == {"0", "1", "2", "3", "4", "5", "6", "7", "8", "9"}

DigitVal(d) ==
    CASE d = "0" -> 0 [] d = "1" -> 1 [] d = "2" -> 2 [] d = "3" -> 3
      [] d = "4" -> 4 [] d = "5" -> 5 [] d = "6" -> 6 [] d = "7" -> 7
      [] d = "8" -> 8 [] d = "9" -> 9

\* The literals of the notebook.
ThirtyFive == <<"t", "h", "i", "r", "t", "y", "-", "f", "i", "v", "e">>
UnknownLc == <<"u", "n", "k", "n", "o", "w", "n">>
Unknown == <<"U", "n", "k", "n", "o", "w", "n">>
Other == <<"O", "t", "h", "e", "r">>
NonBinary == <<"N", "o", "n", "-", "b", "i", "n", "a", "r", "y">>
Female == <<"F", "e", "m", "a", "l", "e">>
Male == <<"M", "a", "l", "e">>

Columns == <<"name", "age", "gender", "country", "monthly_salary", "annual_income">>

MkRow(n, a, g, c, m, y) ==
    [name |-> n, age |-> a, gender |-> g, country |-> c,
     monthly_salary |-> m, annual_income |-> y]

\* messy_data, row by row.
SampleRows ==
    << MkRow(Txt(<<"A", "l", "i", "c", "e">>), Whole(25), Txt(Female),
             Txt(<<"U", "S", "A">>), Whole(50000),
             Txt(<<"6", "0", ",", "0", "0", "0">>)),
       MkRow(Txt(<<"B", "o", "b">>), Whole(30), Txt(Male),
             Txt(<<"C", "a", "n", "a", "d", "a">>), Whole(75000),
             Txt(<<"9", "0", ",", "0", "0", "0">>)),
       MkRow(Txt(<<"C", "h", "a", "r", "l", "i", "e">>), NaN, Txt(Male),
             Txt(<<"M", "e", "x", "i", "c", "o">>), Txt(<<"6", "0", "k">>),
             NaN),
       MkRow(Txt(<<"D", "a", "v", "i", "d">>), Txt(ThirtyFive), Txt(Male),
             Txt(<<"U", "S", "A">>), NaN,
             Txt(<<"1", "0", "0", ",", "0", "0", "0">>)),
       MkRow(Txt(<<"E", "m", "i", "l", "y">>), Whole(22), Txt(Female),
             Txt(<<"A", "u", "s", "t", "r", "a", "l", "i", "a">>), Whole(40000),
             Txt(<<"4", "0", "k">>)),
       MkRow(Txt(<<"F", "r", "a", "n", "k">>), Whole(45), Txt(Other),
             Txt(Unknown), Txt(UnknownLc),
             Txt(<<"7", "5", "k">>)),
       MkRow(Txt(<<"G", "r", "a", "c", "e">>), Txt(UnknownLc), Txt(Male),
             Txt(<<"U", "K">>), Whole(80000),
             Txt(UnknownLc)) >>

\* Two more rows, for the cases the sample lacks: a missing gender and
\* country, ages written as digits, an income with a separator only.
ExtraRows ==
    << MkRow(Txt(<<"H", "a", "n">>), Txt(<<"2", "5">>), NaN, NaN, NaN,
             Txt(<<"1", ",", "2", "0", "0">>)),
       MkRow(Txt(<<"I", "v", "y">>), Txt(<<"3", "0">>), Txt(Other),
             Txt(<<"U", "S", "A">>), Whole(50000), NaN) >>

\* The ages "25", "30", "thirty-five" in one table.
ExampleRows == <<ExtraRows[1], ExtraRows[2], SampleRows[4]>>

RowPool == {SampleRows[i] : i \in 1..Len(SampleRows)}
             \cup {ExtraRows[i] : i \in 1..Len(ExtraRows)}

\* The dictionary of lists a sequence of rows stands for.
DictOf(rows) ==
    [c \in {Columns[j] : j \in 1..Len(Columns)} |->
        [i \in 1..Len(rows) |-> rows[i][c]]]

\* The inputs: every prefix of the notebook's messy_data (0 to 7 rows),
\* the example table and every table of at most MaxRows rows of the pool.
Inputs ==
    {DictOf(SubSeq(SampleRows, 1, n)) : n \in 0..Len(SampleRows)}
      \cup {DictOf(ExampleRows)}
      \cup UNION {{DictOf(rows) : rows \in [1..n -> RowPool]} : n \in 0..MaxRows}

-----------------------------------------------------------------------------
(* pandas, as far as the notebook uses it *)

\* pd.DataFrame(dict of lists): a list holding a text gives an object
\* column; a list of numbers and NaN, and an empty list too (float64, as
\* numpy does), a numeric one.
InferDtype(col) ==
    IF \E i \in 1..Len(col) : IsStr(col[i])
    THEN "object" ELSE "numeric"

DataFrame(dict) ==
    [cols |-> Columns,
     data |-> dict,
     dtype |-> [c \in DOMAIN dict |-> InferDtype(dict[c])]]

HasColumn(df, name) == name \in DOMAIN df.data

\* df[name] = col
SetColumn(df, name, col, dt) ==
    [df EXCEPT !.data[name] = col, !.dtype[name] = dt]

\* Series.replace(old, new): the cells equal to old become new.
Replace(col, old, new) ==
    [i \in 1..Len(col) |-> IF col[i] = old THEN new ELSE col[i]]

RECURSIVE ParseDigits(_)
ParseDigits(t) ==
    IF t = <<>> THEN 0
    ELSE 10 * ParseDigits(SubSeq(t, 1, Len(t) - 1)) + DigitVal(t[Len(t)])

AllDigits(t) == \A i \in 1..Len(t) : t[i] \in Digits

\* pd.to_numeric(..., errors='coerce') on one cell: a number stays, a text
\* of digits is parsed, anything else (the empty text too) becomes NaN.
ToNumericCell(c) ==
    IF IsNum(c) THEN c
    ELSE IF IsStr(c) /\ c.s # <<>> /\ AllDigits(c.s) THEN Whole(ParseDigits(c.s))
    ELSE NaN

ToNumeric(col) == [i \in 1..Len(col) |-> ToNumericCell(col[i])]

\* Series.fillna(value): fillna(NaN) changes nothing.
FillNa(col, value) ==
    [i \in 1..Len(col) |-> IF IsNaN(col[i]) THEN value ELSE col[i]]

\* The x2 of the non-missing cells of a numeric column, in row order.
RECURSIVE Present(_)
Present(col) ==
    IF col = <<>> THEN <<>>
    ELSE IF IsNum(Head(col)) THEN <<Head(col).x2>> \o Present(Tail(col))
    ELSE Present(Tail(col))

\* Mutant: the upper of the two middle values instead of their mean.
MedianUpper(col) ==
    LET v == SortSeq(Present(col), LAMBDA a, b : a < b)
        n == Len(v)
    IN  IF n = 0 THEN NaN ELSE Num2(v[n \div 2 + 1])

\* Series.median(): NaN are skipped; NaN when nothing is left.
Median(col) ==
    LET v == SortSeq(Present(col), LAMBDA a, b : a < b)
        n == Len(v)
    IN  IF n = 0 THEN NaN
        ELSE IF n % 2 = 1 THEN Num2(v[(n + 1) \div 2])
        ELSE Num2((v[n \div 2] + v[n \div 2 + 1]) \div 2)

\* Series.str.replace('[^\d.]', '', regex=True) on one cell: a text keeps
\* its digits and dots; a cell that is not a text becomes NaN.
IsKept(ch) == ch \in Digits \cup {"."}

StrReplaceCell(c) ==
    IF IsStr(c) THEN Txt(SelectSeq(c.s, IsKept)) ELSE NaN

StrReplace(col) == [i \in 1..Len(col) |-> StrReplaceCell(col[i])]

\* Series *= 1000
Times1000(col) ==
    [i \in 1..Len(col) |->
        IF IsNum(col[i]) THEN Num2(col[i].x2 * 1000) ELSE col[i]]

\* Mutant: the column is taken out of the data but stays in the column index.
DropDataOnly(df, name) ==
    [cols |-> df.cols,
     data |-> [c \in DOMAIN df.data \ {name} |-> df.data[c]],
     dtype |-> [c \in DOMAIN df.dtype \ {name} |-> df.dtype[c]]]

\* DataFrame.drop(name, axis=1)
Drop(df, name) ==
    [cols |-> SelectSeq(df.cols, LAMBDA c : c # name),
     data |-> [c \in DOMAIN df.data \ {name} |-> df.data[c]],
     dtype |-> [c \in DOMAIN df.dtype \ {name} |-> df.dtype[c]]]

-----------------------------------------------------------------------------
(* The cleaning statements, as functions of the frame *)

\* Mutant: the cells that fail to parse are dropped (a dropna).
CoerceNumericDropFailures(col) ==
    SelectSeq(ToNumeric(Replace(col, Txt(ThirtyFive), Whole(35))), IsNum)

\* line 155
CoerceNumeric(col) == ToNumeric(Replace(col, Txt(ThirtyFive), Whole(35)))

CoerceAge(df) == SetColumn(df, "age", CoerceNumeric(df.data["age"]), "numeric")

\* line 156
ImputeMedian(col) == FillNa(col, Median(col))

ImputeAge(df) == SetColumn(df, "age", ImputeMedian(df.data["age"]), df.dtype["age"])

\* line 157: a column that held a NaN holds texts afterwards.
FillColumn(df, name, value) ==
    LET col == df.data[name]
        hit == \E i \in 1..Len(col) : IsNaN(col[i])
    IN  SetColumn(df, name, FillNa(col, value),
                  IF hit THEN "object" ELSE df.dtype[name])

FillCategorical(df) ==
    FillColumn(FillColumn(df, "country", Txt(Unknown)), "gender", Txt(Other))

\* line 184: the .str accessor exists on object columns only.
StrAccessorOk(df, name) == df.dtype[name] = "object"

StripIncome(df) ==
    SetColumn(df, "annual_income", ToNumeric(StrReplace(df.data["annual_income"])),
              "numeric")

\* line 185
ScaleIncome(df) ==
    SetColumn(df, "annual_income", Times1000(df.data["annual_income"]),
              df.dtype["annual_income"])

\* line 212
DropSalary(df) == Drop(df, "monthly_salary")

\* Mutant: every gender that is not 'Female' or 'Male' is relabelled.
RelabelGenderLoose(df) ==
    SetColumn(df, "gender",
              [i \in 1..Len(df.data["gender"]) |->
                  IF df.data["gender"][i] \in {Txt(Female), Txt(Male)}
                  THEN df.data["gender"][i] ELSE Txt(NonBinary)],
              df.dtype["gender"])

\* line 215
RelabelGender(df) ==
    SetColumn(df, "gender", Replace(df.data["gender"], Txt(Other), Txt(NonBinary)),
              df.dtype["gender"])

-----------------------------------------------------------------------------
(* The kernel *)

Cells == {"frame", "age", "income", "drop"}

\* The position of the print that ends each cell.
LastPc(c) ==
    CASE c = "frame" -> 2 [] c = "age" -> 4 [] c = "income" -> 3 [] c = "drop" -> 3

Init ==
    /\ messy_data \in Inputs
    /\ messy_df = DataFrame(messy_data)
    /\ df_id = 1
    /\ report = <<>>
    /\ cell = "idle"
    /\ pc = 0
    /\ err = "none"

\* The user executes a cell.
RunCell(c) ==
    /\ cell = "idle"
    /\ cell' = c
    /\ pc' = 1
    /\ err' = "none"
    /\ UNCHANGED <<messy_data, messy_df, df_id, report>>

\* A statement that succeeds: the frame object is updated in place (the
\* name stays bound to it), the next statement follows.
Advance(df) ==
    /\ messy_df' = df
    /\ pc' = pc + 1
    /\ UNCHANGED <<messy_data, df_id, report, cell, err>>

\* A statement that raises: the rest of the cell is not executed.
Raise(e) ==
    /\ err' = e
    /\ cell' = "idle"
    /\ pc' = 0
    /\ UNCHANGED <<messy_data, messy_df, df_id, report>>

\* The identity of an object created while the object id is alive.
NewId(id) == IF id = 1 THEN 2 ELSE 1

\* line 125: the name is bound to a new frame; the one it held is released.
StmtBuildFrame ==
    /\ cell = "frame" /\ pc = 1
    /\ messy_df' = DataFrame(messy_data)
    /\ df_id' = NewId(df_id)
    /\ pc' = pc + 1
    /\ UNCHANGED <<messy_data, report, cell, err>>

StmtCoerceAge ==
    /\ cell = "age" /\ pc = 1
    /\ Advance(CoerceAge(messy_df))

StmtImputeAge ==
    /\ cell = "age" /\ pc = 2
    /\ Advance(ImputeAge(messy_df))

StmtFillCategorical ==
    /\ cell = "age" /\ pc = 3
    /\ Advance(FillCategorical(messy_df))

StmtStripIncome ==
    /\ cell = "income" /\ pc = 1
    /\ IF StrAccessorOk(messy_df, "annual_income")
       THEN Advance(StripIncome(messy_df))
       ELSE Raise("AttributeError")

StmtScaleIncome ==
    /\ cell = "income" /\ pc = 2
    /\ Advance(ScaleIncome(messy_df))

StmtDropSalary ==
    /\ cell = "drop" /\ pc = 1
    /\ IF HasColumn(messy_df, "monthly_salary")
       THEN Advance(DropSalary(messy_df))
       ELSE Raise("KeyError")

StmtRelabelGender ==
    /\ cell = "drop" /\ pc = 2
    /\ Advance(RelabelGender(messy_df))

\* print(...): the last statement of every cell.
StmtPrint ==
    /\ cell \in Cells /\ pc = LastPc(cell)
    /\ cell' = "idle"
    /\ pc' = 0
    /\ UNCHANGED <<messy_data, messy_df, df_id, report, err>>

Next ==
    \/ \E c \in Cells : RunCell(c)
    \/ StmtBuildFrame
    \/ StmtCoerceAge
    \/ StmtImputeAge
    \/ StmtFillCategorical
    \/ StmtStripIncome
    \/ StmtScaleIncome
    \/ StmtDropSalary
    \/ StmtRelabelGender
    \/ StmtPrint

Spec == Init /\ [][Next]_vars

-----------------------------------------------------------------------------
(* Properties *)

NRows == Len(messy_data["name"])
Age == messy_df.data["age"]
Gender == messy_df.data["gender"]
Income == messy_df.data["annual_income"]
Rows == 1..NRows

SampleData == DictOf(SampleRows)

\* C1: in every state, whatever statements have run, every column of the
\* frame has as many cells as the table had rows when it was built (tables
\* of 0, 1 and 7 rows are among the inputs).
C1_RowCountInvariant ==
    /\ \A c \in DOMAIN messy_data : Len(messy_data[c]) = NRows
    /\ \A c \in DOMAIN messy_df.data :
          /\ DOMAIN messy_df.data[c] = Rows
          /\ Len(messy_df.data[c]) = NRows

\* C1 witness: the seven-row table after all three cleaning cells ran (the
\* column is dropped, age and income are numeric, some cells are missing).
C1_Witness ==
    /\ NRows = 7
    /\ cell = "drop" /\ pc = 3
    /\ messy_df.dtype["age"] = "numeric"
    /\ messy_df.dtype["annual_income"] = "numeric"
    /\ \E i \in Rows : IsNaN(Income[i])

\* What C2 says of one cell: digits with separators give the plain number,
\* digits followed by k give a thousand times the number, all else missing.
C2_IsPlain(t) ==
    /\ \E i \in 1..Len(t) : t[i] \in Digits
    /\ \A i \in 1..Len(t) : t[i] \in Digits \cup {","}

C2_Expected(c) ==
    IF ~IsStr(c) \/ c.s = <<>> THEN NaN
    ELSE IF C2_IsPlain(c.s) THEN Whole(ParseDigits(SelectSeq(c.s, IsKept)))
    ELSE IF c.s[Len(c.s)] = "k" /\ C2_IsPlain(SubSeq(c.s, 1, Len(c.s) - 1))
         THEN Whole(1000 * ParseDigits(SelectSeq(c.s, IsKept)))
    ELSE NaN

\* C2: once lines 184 and 185 have run, every income cell is the number
\* its text stands for, multiplied by 1000 only when the text ends in k.
C2_SuffixOnlyMultiplier ==
    (cell = "income" /\ pc = 3) =>
        \A i \in Rows : Income[i] = C2_Expected(messy_data["annual_income"][i])

\* A text that is not the override text and does not parse as a number.
\* A cell that is already missing or already a number is no failure.
C3_Fails(c) ==
    /\ IsStr(c)
    /\ c # Txt(ThirtyFive)
    /\ ~(c.s # <<>> /\ AllDigits(c.s))

C3_CoerceStep == cell = "age" /\ pc = 1 /\ pc' = 2

\* C3: line 155 maps the override text to 35, parses the texts of digits
\* ("25" to 25, "30" to 30), keeps numbers and makes every text that fails
\* to parse missing, never a default number; and it adds one record to
\* the report for each cell that failed, none for the others.
C3_FailureRecorded ==
    [][C3_CoerceStep =>
          /\ \A i \in Rows :
                /\ Age[i] = Txt(ThirtyFive) => Age'[i] = Whole(35)
                /\ IsNum(Age[i]) => Age'[i] = Age[i]
                /\ C3_Fails(Age[i]) => Age'[i] = NaN
                /\ Age[i] = Txt(<<"2", "5">>) => Age'[i] = Whole(25)
                /\ Age[i] = Txt(<<"3", "0">>) => Age'[i] = Whole(30)
          /\ Len(report') =
                Len(report) + Cardinality({i \in Rows : C3_Fails(Age[i])})]_vars

\* Order statistics, by rank: x is the k-th smallest of v.
CountLt(v, x) == Cardinality({i \in 1..Len(v) : v[i] < x})
CountLe(v, x) == Cardinality({i \in 1..Len(v) : v[i] <= x})
Kth(v, k, x) ==
    /\ \E i \in 1..Len(v) : v[i] = x
    /\ CountLt(v, x) < k
    /\ k <= CountLe(v, x)

\* m is the median of the non-empty v: the middle value, or the mean of
\* the two middle values (all in x2 units).
IsMedian(v, m) ==
    LET n == Len(v)
    IN  IF n % 2 = 1 THEN Kth(v, (n + 1) \div 2, m)
        ELSE \E i, j \in 1..n :
                /\ Kth(v, n \div 2, v[i])
                /\ Kth(v, n \div 2 + 1, v[j])
                /\ 2 * m = v[i] + v[j]

C4_ImputeStep == cell = "age" /\ pc = 2 /\ pc' = 3

FiveRows == DictOf(SubSeq(SampleRows, 1, 5))

\* C4: line 156 leaves every non-missing age as it is and, when some age
\* is present, puts the median of the ages present at that moment (the
\* coerced column) in every missing cell, so that none stays missing; on
\* 25, 30, missing, 35, 22 the value is 27.5.
C4_ImputeMedian ==
    [][C4_ImputeStep =>
          /\ \A i \in Rows : IsNum(Age[i]) => Age'[i] = Age[i]
          /\ (\E j \in Rows : IsNum(Age[j])) =>
                \A i \in Rows :
                    /\ IsNum(Age'[i])
                    /\ IsNaN(Age[i]) => IsMedian(Present(Age), Age'[i].x2)
          /\ Age = <<Whole(25), Whole(30), NaN, Whole(35), Whole(22)>>
                => Age'[3] = Num2(55)]_vars

\* C4 witness: the first five rows of the sample, imputed: Charlie is 27.5.
C4_Witness ==
    /\ messy_data = FiveRows
    /\ cell = "age" /\ pc = 3
    /\ IsNaN(messy_data["age"][3])
    /\ Age = <<Whole(25), Whole(30), Num2(55), Whole(35), Whole(22)>>

\* C5: the imputation of a non-empty age column whose cells are all missing
\* raises an error.
C5_AllMissingFails ==
    [][(cell = "age" /\ pc = 2 /\ NRows > 0 /\ \A i \in Rows : IsNaN(Age[i]))
          => err' # "none"]_vars

C6_Pos(cols, name) == CHOOSE j \in 1..Len(cols) : cols[j] = name

\* C6: line 212 on a frame that has monthly_salary removes that column and
\* nothing else: the other columns keep their names, their order, their
\* cells and their rows.  On a frame that no longer has it (the cell is run
\* again) it raises KeyError, pandas' error for a missing column, and the
\* frame is unchanged.
C6_DropExactly ==
    [][(cell = "drop" /\ pc = 1) =>
          IF "monthly_salary" \in DOMAIN messy_df.data
          THEN LET p == C6_Pos(messy_df.cols, "monthly_salary")
               IN  /\ err' = "none"
                   /\ DOMAIN messy_df'.data = DOMAIN messy_df.data \ {"monthly_salary"}
                   /\ \A c \in DOMAIN messy_df'.data :
                         /\ messy_df'.data[c] = messy_df.data[c]
                         /\ messy_df'.dtype[c] = messy_df.dtype[c]
                   /\ Len(messy_df'.cols) = Len(messy_df.cols) - 1
                   /\ \A j \in 1..Len(messy_df'.cols) :
                         messy_df'.cols[j] =
                            IF j < p THEN messy_df.cols[j] ELSE messy_df.cols[j + 1]
          ELSE /\ err' = "KeyError"
               /\ messy_df' = messy_df]_vars

\* C6 witness: the cell was run a second time and raised.
C6_Witness ==
    /\ err = "KeyError"
    /\ "monthly_salary" \notin DOMAIN messy_df.data
    /\ messy_df.cols = <<"name", "age", "gender", "country", "annual_income">>
    /\ NRows > 0

\* C7: a cleaning statement leaves the frame object it is given as it
\* was, its result being another object, and leaves the dictionary the
\* frame was built from as it was.
C7_StepsPure ==
    [][(cell \in {"age", "income", "drop"}) =>
          /\ messy_data' = messy_data
          /\ df_id' = df_id => messy_df' = messy_df]_vars

C8_AllMissing(col) == Len(col) > 0 /\ \A i \in 1..Len(col) : IsNaN(col[i])

\* C8: a statement that meets a fatal condition (line 212 on a frame
\* without the column, line 156 on an age column whose cells are all
\* missing) raises, and a statement that raises ends the run: the
\* statements after it do not execute, the frame and the report are those
\* the earlier statements left and the error is kept.  Unparseable values
\* never raise: line 155 runs through on every column and line 184 on
\* every column that holds a text.
C8_FatalStopsDataNever ==
    [][/\ err' # "none" =>
             /\ cell' = "idle" /\ pc' = 0
             /\ messy_df' = messy_df
             /\ report' = report
       /\ (cell = "drop" /\ pc = 1 /\ ~HasColumn(messy_df, "monthly_salary")) =>
             err' # "none"
       /\ (cell = "age" /\ pc = 2 /\ C8_AllMissing(Age)) =>
             err' # "none"
       /\ (cell = "age" /\ pc = 1) =>
             err' = "none" /\ cell' = "age" /\ pc' = 2
       /\ (cell = "income" /\ pc = 1 /\ \E i \in Rows : IsStr(Income[i])) =>
             err' = "none" /\ cell' = "income" /\ pc' = 2]_vars

NoMissing(col) == \A i \in 1..Len(col) : ~IsNaN(col[i])

\* C10: line 215 turns the gender cells that are exactly 'Other' into
\* 'Non-binary' and changes no other cell of the frame.  Line 157 leaves
\* no gender missing and no later cleaning statement makes one missing, so
\* a relabelling that follows the fill leaves no gender 'Other' or missing.
C10_RelabelExact ==
    [][/\ (cell = "drop" /\ pc = 2) =>
             /\ \A i \in Rows :
                   Gender'[i] = IF Gender[i] = Txt(Other) THEN Txt(NonBinary)
                                ELSE Gender[i]
             /\ DOMAIN messy_df'.data = DOMAIN messy_df.data
             /\ \A c \in DOMAIN messy_df.data \ {"gender"} :
                   messy_df'.data[c] = messy_df.data[c]
             /\ NoMissing(Gender) =>
                   \A i \in Rows : Gender'[i] \notin {Txt(Other), NaN}
             /\ (messy_data = SampleData) =>
                   Gender' = <<Txt(Female), Txt(Male), Txt(Male), Txt(Male),
                               Txt(Female), Txt(NonBinary), Txt(Male)>>
       /\ (cell = "age" /\ pc = 3) => NoMissing(Gender')
       /\ (cell # "frame" /\ NoMissing(Gender)) => NoMissing(Gender')]_vars

\* C10 witness: a gender that was missing in the input was filled with
\* 'Other' and then relabelled.
C10_Witness ==
    /\ cell = "drop" /\ pc = 3
    /\ \E i \in Rows : IsNaN(messy_data["gender"][i]) /\ Gender[i] = Txt(NonBinary)
    /\ \E i \in Rows : Gender[i] = Txt(Male)

====
